---- MODULE Spec2Model ----
(***************************************************************************)
(* Model of app/core/legacy_migration.py: migrate_legacy_cache_dirs.       *)
(*                                                                         *)
(* The shared state is the filesystem under one data root: the legacy      *)
(* tree data/temp/{image,video}, the current tree data/tmp/{image,video},  *)
(* and data/.locks with the lock file and the done marker.  Every call of  *)
(* migrate_legacy_cache_dirs is a sequential process whose steps are the   *)
(* filesystem system calls it makes, in program order; calls interleave at *)
(* those steps.  Filesystem semantics are POSIX: unlink removes a file     *)
(* whoever created it, rename is atomic.                                   *)
(***************************************************************************)
EXTENDS Integers, FiniteSets, Sequences, TLC

\* ---------------------------------------------------------------- bounds
\* Number of calls of migrate_legacy_cache_dirs in a behaviour of SpecRace or SpecSeq.
MaxCalls == 3
\* Number of calls in a behaviour of Spec or SpecFair.
ConcCalls == 2
\* Largest number of directory entries initially present under the legacy and
\* current subdirectories together.
MaxFiles == 2
\* Largest number of entries initially present in the legacy subdirectories in a
\* behaviour of SpecFair.
FairFiles == 1

Calls == 1..MaxCalls
\* for sub in ("image", "video")
SubOrder == <<"image", "video">>
Subs == {"image", "video"}
Names == {"a", "b"}
Slots == Subs \X Names

VARIABLES
  legacy_root,   \* data/temp: "absent", "dir" or "file" (exists, not a directory)
  legacyOther,   \* data/temp holds an entry other than image/ and video/
  src_dir,       \* [Subs -> BOOLEAN]: data/temp/<sub> exists (a directory)
  legacy,        \* [Slots -> {"none","file","other"}]: entry of data/temp/<sub>
  unmovable,     \* legacy files on which shutil.move raises (e.g. permissions)
  current_root,  \* data/tmp: "absent", "dir" or "file"
  dst_dir,       \* [Subs -> BOOLEAN]: data/tmp/<sub> exists
  current,       \* [Slots -> {"none","orig","legacy"}]: content of data/tmp/<sub>/<name>
  lock_dir,      \* data/.locks exists
  lock_file,     \* legacy_cache_dirs_v1.lock exists
  lockCreator,   \* the call whose os.open created the present lock file (0: none)
  done_marker,   \* legacy_cache_dirs_v1.done exists
  doneWrites,    \* number of write_text calls on the done marker (its mtime)
  legacy0,       \* the legacy entries of the initial state
  current0,      \* the current entries of the initial state
  lock0,         \* the initial state holds a lock file, left by a process that died
  legacy_root0,  \* data/temp in the initial state
  pc,            \* [Calls -> label]: each call's position
  fd,            \* [Calls -> BOOLEAN]: fd is not None (os.open created the lock file)
  subIdx,        \* [Calls -> 1..3]: position in ("image", "video")
  todo,          \* [Calls -> SUBSET Names]: entries of src_dir.iterdir() not yet visited
  item,          \* [Calls -> Names \cup {"-"}]: the loop variable
  moved, skipped, errors,   \* [Calls -> Nat]: the counters
  result         \* [Calls -> reason or "migrated" or "raised" or "none"]

fsVars == <<legacy_root, legacyOther, src_dir, legacy, current_root, dst_dir, current>>
lockVars == <<lock_dir, lock_file, lockCreator>>
markerVars == <<done_marker, doneWrites>>
constVars == <<unmovable, legacy0, current0, lock0, legacy_root0>>
loopVars == <<subIdx, todo, item>>
countVars == <<moved, skipped, errors>>
vars == <<fsVars, lockVars, markerVars, constVars, pc, fd, loopVars, countVars, result>>

\* ------------------------------------------------------------ initial states
\* What a slot (sub, name) initially holds.
SlotCases == {"none", "file", "unmovable", "collide", "other", "curonly"}

LegacyOf(k) ==
  CASE k \in {"file", "unmovable", "collide"} -> "file"
    [] k = "other" -> "other"
    [] OTHER -> "none"

CurrentOf(k) == IF k \in {"collide", "curonly"} THEN "orig" ELSE "none"

Used(cs) == {sl \in Slots : cs[sl] # "none"}

\* The names of a directory are interchangeable (the code never looks at a name, and
\* the listing order is arbitrary), so of the initial states that differ by a renaming
\* inside a subdirectory one is kept.
Rank(k) ==
  CASE k = "file" -> 1 [] k = "unmovable" -> 2 [] k = "collide" -> 3
    [] k = "other" -> 4 [] k = "curonly" -> 5 [] OTHER -> 6

Canonical(cs) == \A s \in Subs : Rank(cs[<<s, "a">>]) <= Rank(cs[<<s, "b">>])

\* The filesystem before the first call: slots drawn from `cases`, legacyOther from
\* `others`, a lock file left behind from `stale`; no marker yet.
InitFS(cases, others, stale) ==
  /\ legacy_root \in {"absent", "file", "dir"}
  /\ \E cs \in [Slots -> cases] :
       /\ Cardinality(Used(cs)) <= MaxFiles
       /\ Canonical(cs)
       /\ legacy_root # "dir" => \A sl \in Slots : cs[sl] \in {"none", "curonly"}
       /\ legacy = [sl \in Slots |-> LegacyOf(cs[sl])]
       /\ current = [sl \in Slots |-> CurrentOf(cs[sl])]
       /\ unmovable = {sl \in Slots : cs[sl] = "unmovable"}
  /\ src_dir \in [Subs -> BOOLEAN]
  /\ \A s \in Subs :
       /\ src_dir[s] => legacy_root = "dir"
       /\ (\E n \in Names : legacy[<<s, n>>] # "none") => src_dir[s]
  /\ legacyOther \in others
  /\ legacyOther => legacy_root = "dir"
  /\ dst_dir = [s \in Subs |-> \E n \in Names : current[<<s, n>>] # "none"]
  /\ current_root \in {"absent", "dir", "file"}
  /\ (current_root = "dir") = (\E s \in Subs : dst_dir[s])
  /\ lock_file \in stale
  /\ lock_dir = lock_file
  /\ lockCreator = 0
  /\ done_marker = FALSE
  /\ doneWrites = 0
  /\ legacy0 = legacy
  /\ current0 = current
  /\ lock0 = lock_file
  /\ legacy_root0 = legacy_root

InitCalls ==
  /\ pc = [c \in Calls |-> "idle"]
  /\ fd = [c \in Calls |-> FALSE]
  /\ subIdx = [c \in Calls |-> 1]
  /\ todo = [c \in Calls |-> {}]
  /\ item = [c \in Calls |-> "-"]
  /\ moved = [c \in Calls |-> 0]
  /\ skipped = [c \in Calls |-> 0]
  /\ errors = [c \in Calls |-> 0]
  /\ result = [c \in Calls |-> "none"]

\* -------------------------------------------------------------- the program
Goto(c, l) == pc' = [pc EXCEPT ![c] = l]
Return(c, r) == result' = [result EXCEPT ![c] = r]

\* The check without is_dir(): if not legacy_root.exists()
NoLegacyDir_ExistsOnly == legacy_root = "absent"

\* if not legacy_root.exists() or not legacy_root.is_dir()
NoLegacyDir == legacy_root # "dir"

\* Calls are numbered in the order of their first step.
NextToStart(c) == \A d \in Calls : d < c => pc[d] # "idle"

\* The call begins: the check of the legacy root, then
\* lock_dir.mkdir(parents=True, exist_ok=True), which no call's control flow reads.
CheckLegacy(c) ==
  /\ pc[c] = "idle"
  /\ NextToStart(c)
  /\ IF NoLegacyDir
       THEN Goto(c, "done") /\ Return(c, "no_legacy_dir") /\ UNCHANGED lock_dir
       ELSE Goto(c, "check_done") /\ lock_dir' = TRUE /\ UNCHANGED result
  /\ UNCHANGED <<fsVars, lock_file, lockCreator, markerVars, constVars, fd, loopVars,
                 countVars>>

\* The early exit left out.
AlreadyDone_Never == FALSE

\* if done_marker.exists()   (before the lock is attempted)
AlreadyDone == done_marker

\* The marker test placed inside the try block: the early return leaves through the
\* finally clause.
CheckDone_InTry(c) ==
  /\ pc[c] = "check_done"
  /\ IF AlreadyDone
       THEN Goto(c, "finally") /\ Return(c, "already_done")
       ELSE Goto(c, "open_lock") /\ UNCHANGED result
  /\ UNCHANGED <<fsVars, lockVars, markerVars, constVars, fd, loopVars, countVars>>

\* if done_marker.exists(): return already_done
CheckDone(c) ==
  /\ pc[c] = "check_done"
  /\ IF AlreadyDone
       THEN Goto(c, "done") /\ Return(c, "already_done")
       ELSE Goto(c, "open_lock") /\ UNCHANGED result
  /\ UNCHANGED <<fsVars, lockVars, markerVars, constVars, fd, loopVars, countVars>>

\* The open without O_EXCL: it never raises FileExistsError.
LockExists_NoExcl == FALSE

\* os.open(..., O_CREAT | O_EXCL | O_WRONLY) raises FileExistsError
LockExists == lock_file

\* fd = os.open(lock_file, O_CREAT | O_EXCL | O_WRONLY); FileExistsError starts the wait
OpenLock(c) ==
  /\ pc[c] = "open_lock"
  /\ IF LockExists
       THEN /\ Goto(c, "wait")
            /\ UNCHANGED <<lock_file, lockCreator, fd>>
       ELSE /\ lock_file' = TRUE
            /\ lockCreator' = c
            /\ fd' = [fd EXCEPT ![c] = TRUE]
            /\ Goto(c, "mkdir_current")
  /\ UNCHANGED <<fsVars, lock_dir, markerVars, constVars, loopVars, countVars, result>>

\* A wait loop without a deadline: it ends only when the marker is seen.
Wait_NoDeadline(c) ==
  /\ pc[c] = "wait"
  /\ IF done_marker
       THEN Goto(c, "finally") /\ Return(c, "waited_for_other_process")
       ELSE UNCHANGED <<pc, result>>
  /\ UNCHANGED <<fsVars, lockVars, markerVars, constVars, fd, loopVars, countVars>>

\* A wait loop that tries the lock again once the lock file is gone.
Wait_Retry(c) ==
  /\ pc[c] = "wait"
  /\ \E expired \in BOOLEAN :
       IF expired
         THEN Goto(c, "finally") /\ Return(c, "lock_timeout")
         ELSE IF done_marker
                THEN Goto(c, "finally") /\ Return(c, "waited_for_other_process")
                ELSE IF lock_file
                       THEN UNCHANGED <<pc, result>>
                       ELSE Goto(c, "open_lock") /\ UNCHANGED result
  /\ UNCHANGED <<fsVars, lockVars, markerVars, constVars, fd, loopVars, countVars>>

\* One turn of the wait loop.  while time.monotonic() < deadline: the clock decides,
\* and past the deadline the call returns lock_timeout without looking at the marker
\* again; before it, if done_marker.exists(): return waited_for_other_process, else
\* time.sleep(0.2).  Both returns leave through the finally clause.
Wait(c) ==
  /\ pc[c] = "wait"
  /\ \E expired \in BOOLEAN :
       IF expired
         THEN Goto(c, "finally") /\ Return(c, "lock_timeout")
         ELSE IF done_marker
                THEN Goto(c, "finally") /\ Return(c, "waited_for_other_process")
                ELSE UNCHANGED <<pc, result>>
  /\ UNCHANGED <<fsVars, lockVars, markerVars, constVars, fd, loopVars, countVars>>

\* current_root.mkdir(parents=True, exist_ok=True): raises FileExistsError when
\* data/tmp exists and is not a directory; the error leaves through finally.
MkdirCurrent(c) ==
  /\ pc[c] = "mkdir_current"
  /\ IF current_root = "file"
       THEN /\ Goto(c, "finally") /\ Return(c, "raised")
            /\ UNCHANGED current_root
       ELSE /\ current_root' = "dir"
            /\ Goto(c, "sub_check") /\ UNCHANGED result
  /\ subIdx' = [subIdx EXCEPT ![c] = 1]
  /\ UNCHANGED <<legacy_root, legacyOther, src_dir, legacy, dst_dir, current, lockVars,
                 markerVars, constVars, fd, todo, item, countVars>>

Sub(c) == SubOrder[subIdx[c]]

\* for sub in ("image", "video"): if not src_dir.exists() or not src_dir.is_dir(): continue
SubCheck(c) ==
  /\ pc[c] = "sub_check"
  /\ IF subIdx[c] > Len(SubOrder)
       THEN Goto(c, "cleanup") /\ subIdx' = [subIdx EXCEPT ![c] = 1]
       ELSE IF src_dir[Sub(c)]
              THEN Goto(c, "mkdir_dst") /\ UNCHANGED subIdx
              ELSE UNCHANGED pc /\ subIdx' = [subIdx EXCEPT ![c] = @ + 1]
  /\ UNCHANGED <<fsVars, lockVars, markerVars, constVars, fd, todo, item, countVars, result>>

\* dst_dir.mkdir(parents=True, exist_ok=True)
MkdirDst(c) ==
  /\ pc[c] = "mkdir_dst"
  /\ current_root' = "dir"
  /\ dst_dir' = [dst_dir EXCEPT ![Sub(c)] = TRUE]
  /\ Goto(c, "iterdir")
  /\ UNCHANGED <<legacy_root, legacyOther, src_dir, legacy, current, lockVars, markerVars,
                 constVars, fd, loopVars, countVars, result>>

\* src_dir.iterdir(): the directory is listed once, when the loop starts; listing a
\* directory that is gone raises FileNotFoundError, which leaves through finally.
Iterdir(c) ==
  /\ pc[c] = "iterdir"
  /\ IF src_dir[Sub(c)]
       THEN /\ todo' = [todo EXCEPT ![c] = {n \in Names : legacy[<<Sub(c), n>>] # "none"}]
            /\ Goto(c, "loop") /\ UNCHANGED result
       ELSE /\ Goto(c, "finally") /\ Return(c, "raised")
            /\ UNCHANGED todo
  /\ UNCHANGED <<fsVars, lockVars, markerVars, constVars, fd, subIdx, item, countVars>>

\* for item in ...: if not item.is_file(): continue   (in the listing's order, which is arbitrary)
NextItem(c) ==
  /\ pc[c] = "loop"
  /\ IF todo[c] = {}
       THEN /\ Goto(c, "sub_check")
            /\ subIdx' = [subIdx EXCEPT ![c] = @ + 1]
            /\ UNCHANGED <<todo, item>>
       ELSE \E n \in todo[c] :
              /\ todo' = [todo EXCEPT ![c] = @ \ {n}]
              /\ IF legacy[<<Sub(c), n>>] = "file"
                   THEN Goto(c, "target") /\ item' = [item EXCEPT ![c] = n]
                   ELSE UNCHANGED <<pc, item>>
              /\ UNCHANGED subIdx
  /\ UNCHANGED <<fsVars, lockVars, markerVars, constVars, fd, countVars, result>>

\* The collision check left out.
TargetExists_Never(sl) == FALSE

\* target.exists()
TargetExists(sl) == current[sl] # "none"

\* if target.exists(): skipped += 1; continue
CheckTarget(c) ==
  /\ pc[c] = "target"
  /\ IF TargetExists(<<Sub(c), item[c]>>)
       THEN /\ skipped' = [skipped EXCEPT ![c] = @ + 1]
            /\ item' = [item EXCEPT ![c] = "-"]
            /\ Goto(c, "loop")
       ELSE /\ Goto(c, "move")
            /\ UNCHANGED <<skipped, item>>
  /\ UNCHANGED <<fsVars, lockVars, markerVars, constVars, fd, subIdx, todo, moved, errors,
                 result>>

\* shutil.move succeeds: the source is a file that can be renamed
MoveSucceeds(sl) == legacy[sl] = "file" /\ sl \notin unmovable

\* A move that copies and leaves the source in place.
Rename_Copy(sl) ==
  /\ current' = [current EXCEPT ![sl] = "legacy"]
  /\ UNCHANGED legacy

\* os.rename(src, dst): the destination gets the source's content
Rename(sl) ==
  /\ legacy' = [legacy EXCEPT ![sl] = "none"]
  /\ current' = [current EXCEPT ![sl] = "legacy"]

\* A move whose failure ends both loops: the exception handler around the whole pass.
Move_Abort(c) ==
  /\ pc[c] = "move"
  /\ LET sl == <<Sub(c), item[c]>> IN
       IF MoveSucceeds(sl)
         THEN /\ Rename(sl)
              /\ moved' = [moved EXCEPT ![c] = @ + 1]
              /\ Goto(c, "loop")
              /\ UNCHANGED <<errors, subIdx, todo>>
         ELSE /\ errors' = [errors EXCEPT ![c] = @ + 1]
              /\ Goto(c, "cleanup")
              /\ subIdx' = [subIdx EXCEPT ![c] = 1]
              /\ todo' = [todo EXCEPT ![c] = {}]
              /\ UNCHANGED <<legacy, current, moved>>
  /\ item' = [item EXCEPT ![c] = "-"]
  /\ UNCHANGED <<legacy_root, legacyOther, src_dir, current_root, dst_dir, lockVars, markerVars,
                 constVars, fd, skipped, result>>

\* try: shutil.move(item, target); moved += 1  except Exception: errors += 1
Move(c) ==
  /\ pc[c] = "move"
  /\ LET sl == <<Sub(c), item[c]>> IN
       IF MoveSucceeds(sl)
         THEN /\ Rename(sl)
              /\ moved' = [moved EXCEPT ![c] = @ + 1]
              /\ UNCHANGED errors
         ELSE /\ errors' = [errors EXCEPT ![c] = @ + 1]
              /\ UNCHANGED <<legacy, current, moved>>
  /\ item' = [item EXCEPT ![c] = "-"]
  /\ Goto(c, "loop")
  /\ UNCHANGED <<legacy_root, legacyOther, src_dir, current_root, dst_dir, lockVars, markerVars,
                 constVars, fd, subIdx, todo, skipped, result>>

\* The cleanup left out: no directory is found empty.
SubEmpty_Never(s) == FALSE

\* not any(p.iterdir())
SubEmpty(s) == \A n \in Names : legacy[<<s, n>>] = "none"

\* for sub in ("image", "video"): if p.exists() and p.is_dir() and not any(p.iterdir()): p.rmdir()
\* then the same for legacy_root; rmdir itself refuses a directory that is not empty.
Cleanup(c) ==
  /\ pc[c] = "cleanup"
  /\ IF subIdx[c] <= Len(SubOrder)
       THEN /\ src_dir' = [src_dir EXCEPT ![Sub(c)] = @ /\ ~SubEmpty(Sub(c))]
            /\ subIdx' = [subIdx EXCEPT ![c] = @ + 1]
            /\ UNCHANGED <<legacy_root, pc>>
       ELSE /\ legacy_root' = IF /\ legacy_root = "dir"
                                /\ ~legacyOther
                                /\ \A s \in Subs : ~src_dir[s]
                               THEN "absent" ELSE legacy_root
            /\ subIdx' = [subIdx EXCEPT ![c] = 1]
            /\ Goto(c, "write_done")
            /\ UNCHANGED src_dir
  /\ UNCHANGED <<legacyOther, legacy, current_root, dst_dir, current, lockVars, markerVars,
                 constVars, fd, todo, item, countVars, result>>

\* The condition inverted: if errors
NoErrors_Inverted(c) == errors[c] # 0

\* The marker written whatever the errors.
NoErrors_Always(c) == TRUE

\* if errors == 0
NoErrors(c) == errors[c] = 0

\* if errors == 0: done_marker.write_text(...); return {"migrated": True, ...}
WriteDone(c) ==
  /\ pc[c] = "write_done"
  /\ IF NoErrors(c)
       THEN done_marker' = TRUE /\ doneWrites' = doneWrites + 1
       ELSE UNCHANGED markerVars
  /\ Return(c, "migrated")
  /\ Goto(c, "finally")
  /\ UNCHANGED <<fsVars, lockVars, constVars, fd, loopVars, countVars>>

\* The release at the return statements only, not in a finally clause: an error
\* leaves the lock file behind.
ReleaseLock_OnReturn(c) ==
  IF result[c] = "raised"
    THEN UNCHANGED <<lock_file, lockCreator>>
    ELSE lock_file' = FALSE /\ lockCreator' = 0

\* lock_file.exists() and lock_file.unlink() in the finally clause: the file is removed
\* whoever created it.
ReleaseLock(c) ==
  /\ lock_file' = FALSE
  /\ lockCreator' = 0

\* finally: if fd is not None: os.close(fd); if lock_file.exists(): lock_file.unlink().
\* Every return and every error from inside the try statement passes here, the
\* returns of the wait loop included.  Closing leaves the variable fd as it is.
Finally(c) ==
  /\ pc[c] = "finally"
  /\ ReleaseLock(c)
  /\ Goto(c, "done")
  /\ UNCHANGED <<fsVars, lock_dir, markerVars, constVars, fd, loopVars, countVars, result>>

\* Every step of a call after its first.
Step(c) ==
  \/ CheckDone(c) \/ OpenLock(c) \/ Wait(c)
  \/ MkdirCurrent(c) \/ SubCheck(c) \/ MkdirDst(c) \/ Iterdir(c) \/ NextItem(c)
  \/ CheckTarget(c) \/ Move(c) \/ Cleanup(c) \/ WriteDone(c) \/ Finally(c)

\* The cases of a slot under concurrent calls: entries that no call ever touches
\* (a non-regular entry, a file only in the current tree) are left to SpecSeq.
ConcCases == {"none", "file", "unmovable", "collide"}

\* Concurrent calls: each of the first ConcCalls calls may begin at any time.
Init == InitFS(ConcCases, BOOLEAN, {FALSE}) /\ InitCalls
Next == \E c \in Calls : (c <= ConcCalls /\ CheckLegacy(c)) \/ Step(c)
Spec == Init /\ [][Next]_vars

\* The same with MaxCalls calls.
NextRace == \E c \in Calls : CheckLegacy(c) \/ Step(c)
SpecRace == Init /\ [][NextRace]_vars

\* Successive calls: a call begins only when no other call is in progress.  The
\* initial filesystem is any of SlotCases, with or without a lock file left behind.
Quiet == \A c \in Calls : pc[c] \in {"idle", "done"}
InitSeq == InitFS(SlotCases, BOOLEAN, BOOLEAN) /\ InitCalls
NextSeq == \E c \in Calls : (Quiet /\ CheckLegacy(c)) \/ Step(c)
SpecSeq == InitSeq /\ [][NextSeq]_vars

\* ------------------------------------------------------------------ claims
\* Fair scheduling: a call that can take a step eventually takes one.  For a call in
\* the wait loop the step that changes the state is a return, so this also says that
\* the clock moves on and the 30 s deadline is eventually passed.
\* The fair runs start from the data roots with at most FairFiles legacy entries,
\* with or without a lock file left behind.
InitFair ==
  /\ InitFS(ConcCases, {FALSE}, BOOLEAN)
  /\ InitCalls
  /\ Cardinality({sl \in Slots : legacy[sl] # "none"}) <= FairFiles

SpecFair == InitFair /\ [][Next]_vars /\ \A c \in Calls : WF_vars(Step(c))

RECURSIVE SumTo(_, _)
SumTo(f, n) == IF n = 0 THEN 0 ELSE f[n] + SumTo(f, n - 1)

Files0 == {sl \in Slots : legacy0[sl] = "file"}
Collide0 == {sl \in Files0 : current0[sl] # "none"}
Plain0 == (Files0 \ Collide0) \ unmovable

\* A call is in the migration body from its successful exclusive create of the lock
\* file until its own release in the finally clause.
InBody(c) == fd[c] /\ pc[c] # "done"

\* C1: mutual exclusion: in every reachable state at most one call is between its
\* successful exclusive create of the lock file and its own release.
C1_MutualExclusion == Cardinality({c \in Calls : InBody(c)}) <= 1

\* The two calls of C2 have returned and no other call has begun; the legacy tree held
\* regular files, none colliding with the current tree, none whose move fails, and
\* data/tmp is not in the way of the migration body.
C2_Case ==
  /\ pc[1] = "done" /\ pc[2] = "done"
  /\ \A c \in Calls : c > 2 => pc[c] = "idle"
  /\ Files0 # {} /\ Collide0 = {} /\ unmovable = {}
  /\ current_root # "file"

\* C2 as claimed: of two calls started together on a data root with legacy files,
\* exactly one returns migrated with moved > 0 and the other returns
\* waited_for_other_process, under every interleaving.
C2_Original ==
  C2_Case =>
    \E c \in {1, 2} :
      /\ result[c] = "migrated" /\ moved[c] > 0
      /\ result[3 - c] = "waited_for_other_process"

\* C2 amended: exactly one of the two calls moves files, and it moves all of them; the
\* other moves none and returns waited_for_other_process, lock_timeout, already_done
\* or no_legacy_dir, or migrated with moved = 0.
C2_Exclusive ==
  C2_Case =>
    \E c \in {1, 2} :
      /\ result[c] = "migrated" /\ moved[c] = Cardinality(Files0) /\ errors[c] = 0
      /\ moved[3 - c] = 0 /\ errors[3 - c] = 0
      /\ result[3 - c] \in {"waited_for_other_process", "lock_timeout", "already_done",
                             "no_legacy_dir", "migrated"}

C2_Witness ==
  /\ C2_Case
  /\ result[1] = "migrated" /\ moved[1] = 2
  /\ result[2] = "waited_for_other_process"

\* C3: no file is moved twice: the moved counters of all calls together count exactly
\* the files that have left the legacy tree, each once, so their sum never exceeds the
\* number of regular files initially in legacy image/ and video/.
C3_MovedOnce ==
  /\ SumTo(moved, MaxCalls) = Cardinality({sl \in Files0 : legacy[sl] = "none"})
  /\ SumTo(moved, MaxCalls) <= Cardinality(Files0)

C3_Witness ==
  /\ pc[1] = "done" /\ pc[2] = "done"
  /\ result[1] = "migrated" /\ result[2] = "migrated"
  /\ SumTo(moved, MaxCalls) = 2

\* Two successive calls have returned, on a data root whose legacy root existed and
\* where no lock file was left behind.
C4_Case ==
  /\ legacy_root0 = "dir" /\ ~lock0
  /\ pc[1] = "done" /\ pc[2] = "done"
  /\ \A c \in Calls : c > 2 => pc[c] = "idle"

\* C4 as claimed: for every initial state in which the legacy root exists, the second
\* of two successive calls returns already_done and does not rewrite the marker.
\* (Stated for the first calls that ran the migration body without any error.)
C4_Original ==
  (C4_Case /\ result[1] = "migrated" /\ errors[1] = 0) =>
    (result[2] = "already_done" /\ doneWrites <= 1)

\* C4 amended: the second call returns already_done, leaving the marker as the first
\* call wrote it, when the first call had no errors and the legacy root is still
\* there; it returns no_legacy_dir when the first call's cleanup removed the legacy
\* root, and it runs the migration again when the first call had errors or raised.
\* The marker is never written twice.
C4_Idempotent ==
  C4_Case =>
    /\ doneWrites <= 1
    /\ result[1] \in {"migrated", "raised"}
    /\ (result[1] = "migrated" /\ errors[1] = 0 /\ legacy_root = "dir") =>
          (result[2] = "already_done" /\ done_marker /\ doneWrites = 1)
    /\ (result[1] = "migrated" /\ errors[1] = 0 /\ legacy_root # "dir") =>
          (result[2] = "no_legacy_dir" /\ doneWrites = 1)
    /\ (result[1] = "migrated" /\ errors[1] > 0) =>
          (result[2] = "migrated" /\ doneWrites = 0)
    /\ result[1] = "raised" => result[2] = "raised"

C4_Witness == C4_Case /\ result[2] = "already_done" /\ doneWrites = 1 /\ skipped[1] = 1

\* C5: a call that finds the legacy root absent, or not a directory, returns
\* no_legacy_dir in that step and changes nothing: no lock directory, lock file or
\* marker is created, no lock file is deleted, nothing under either root is touched.
C5_NoLegacyNoop ==
  [][\A c \in Calls :
       (pc[c] = "idle" /\ pc'[c] # "idle" /\ legacy_root # "dir") =>
         /\ pc'[c] = "done"
         /\ result'[c] = "no_legacy_dir"
         /\ UNCHANGED <<fsVars, lockVars, markerVars>>]_vars

C5_Witness ==
  /\ pc[1] = "done" /\ result[1] = "no_legacy_dir"
  /\ legacy_root = "file" /\ legacy_root0 = "file" /\ ~lock_dir

\* C6: a legacy regular file whose name exists in the corresponding current
\* subdirectory stays in place, the destination keeps its content, and every migration
\* pass counts it in skipped, not in moved or errors.
C6_SkipOnCollision ==
  /\ \A sl \in Collide0 : legacy[sl] = "file" /\ current[sl] = "orig"
  /\ \A c \in Calls :
       (pc[c] = "done" /\ result[c] = "migrated") =>
         /\ skipped[c] = Cardinality(Collide0)
         /\ moved[c] <= Cardinality(Plain0)
         /\ errors[c] = Cardinality(unmovable)

C6_Witness ==
  /\ pc[1] = "done" /\ result[1] = "migrated"
  /\ skipped[1] = 1 /\ moved[1] = 1
  /\ \E sl \in Collide0 : legacy[sl] = "file"

\* An uncontended call has returned, on a legacy root whose regular files collide with
\* nothing and can all be moved, with data/tmp not in the way.
C7_Case ==
  /\ legacy_root0 = "dir" /\ ~lock0
  /\ Collide0 = {} /\ unmovable = {}
  /\ current_root # "file"
  /\ pc[1] = "done"

\* C7: after such a call every legacy regular file is under the same subdirectory of
\* the current root with its name, none remains under the legacy root, moved is their
\* number, errors is 0 and the done marker exists.
C7_MoveCorrect ==
  C7_Case =>
    /\ result[1] = "migrated"
    /\ moved[1] = Cardinality(Files0) /\ errors[1] = 0 /\ skipped[1] = 0
    /\ done_marker
    /\ \A sl \in Files0 :
         /\ legacy[sl] = "none" /\ current[sl] = "legacy"
         /\ dst_dir[sl[1]] /\ current_root = "dir"

C7_Witness ==
  /\ C7_Case
  /\ legacy0[<<"image", "a">>] = "file" /\ legacy0[<<"video", "a">>] = "file"
  /\ moved[1] = 2

\* C8: a pass in which a move failed returns errors >= 1 and writes no marker, the
\* failed files are still in the legacy directory, and the next call does not return
\* already_done: it acquires the lock and runs the migration again.
C8_RetryAfterFailure ==
  \A c \in Calls :
    (pc[c] = "done" /\ errors[c] >= 1) =>
      /\ result[c] = "migrated"
      /\ ~done_marker /\ doneWrites = 0
      /\ unmovable # {}
      /\ \A sl \in unmovable : legacy[sl] = "file" /\ current[sl] = "none"
      /\ (c < MaxCalls /\ pc[c + 1] = "done") => (result[c + 1] = "migrated" /\ fd[c + 1])

C8_Witness ==
  /\ pc[1] = "done" /\ errors[1] = 1 /\ moved[1] = 1
  /\ pc[2] = "done" /\ result[2] = "migrated" /\ errors[2] = 1

\* C9: a call whose exclusive create failed returns leaving the lock file as it is: its
\* last step neither deletes nor replaces a lock file.
C9_WaiterKeepsLock ==
  [][\A c \in Calls :
       (pc[c] = "finally" /\ ~fd[c] /\ pc'[c] = "done") =>
         UNCHANGED <<lock_file, lockCreator>>]_vars

\* C10: when a call that created the lock file has finished, by a return or by an
\* error, the lock file it created is gone; and when no call is in progress there is
\* no lock file.
C10_LockReleased ==
  /\ \A c \in Calls : (pc[c] = "done" /\ fd[c]) => lockCreator # c
  /\ (\A c \in Calls : pc[c] \in {"idle", "done"}) => ~lock_file

C10_Witness ==
  /\ pc[1] = "done" /\ result[1] = "raised" /\ fd[1]
  /\ pc[2] = "done" /\ result[2] = "raised" /\ fd[2]
  /\ ~lock_file

\* C11: once the done marker exists, no call acquires the lock, writes the marker again
\* or returns migrated=true.
C11_NeverAgain ==
  [][done_marker =>
       /\ fd' = fd
       /\ doneWrites' = doneWrites
       /\ \A c \in Calls : result'[c] = "migrated" => result[c] = "migrated"]_vars

\* An uncontended pass has returned and has left both legacy subdirectories empty.
C12_Case ==
  /\ legacy_root0 = "dir" /\ ~lock0
  /\ pc[1] = "done" /\ result[1] = "migrated"
  /\ \A sl \in Slots : legacy[sl] = "none"

\* C12 as claimed: after such a pass both subdirectories and the legacy root are gone,
\* and the next call returns no_legacy_dir.
C12_Original ==
  C12_Case =>
    /\ \A s \in Subs : ~src_dir[s]
    /\ legacy_root = "absent"
    /\ pc[2] = "done" => result[2] = "no_legacy_dir"

\* C12 amended: both subdirectories are gone; the legacy root is gone exactly when it
\* held no entry other than image/ and video/, and then the next call returns
\* no_legacy_dir; otherwise the legacy root stays and the next call returns
\* already_done.
C12_Cleanup ==
  C12_Case =>
    /\ \A s \in Subs : ~src_dir[s]
    /\ legacy_root = (IF legacyOther THEN "dir" ELSE "absent")
    /\ pc[2] = "done" =>
         result[2] = (IF legacyOther THEN "already_done" ELSE "no_legacy_dir")

C12_Witness ==
  /\ C12_Case /\ moved[1] = 2
  /\ legacy0[<<"image", "a">>] = "file" /\ legacy0[<<"video", "a">>] = "file"
  /\ legacy_root = "absent"
  /\ pc[2] = "done" /\ result[2] = "no_legacy_dir"

\* C13: with a lock file left behind by a holder that died, and no done marker, every
\* later call on a data root whose legacy root exists returns lock_timeout, and the
\* lock file stays: no later call removes it or acquires the lock.
C13_StaleLockForever ==
  (lock0 /\ legacy_root0 = "dir") =>
    /\ lock_file /\ lockCreator = 0
    /\ \A c \in Calls : pc[c] = "done" => (result[c] = "lock_timeout" /\ ~fd[c])

\* The calls that executed the migration body to its end without a move error.
CleanPasses == {c \in Calls : result[c] = "migrated" /\ errors[c] = 0}

\* C14: a call that ran the migration body to its return writes the done marker if and
\* only if its errors count is 0, and nothing else creates the marker: the marker has
\* been written once per pass that completed with errors == 0, and exists only if
\* there is such a pass.
C14_CommitPoint ==
  /\ doneWrites = Cardinality(CleanPasses)
  /\ done_marker = (CleanPasses # {})

C14_Witness ==
  /\ pc[1] = "done" /\ result[1] = "migrated" /\ errors[1] = 0 /\ skipped[1] = 1
  /\ done_marker /\ doneWrites = 1

\* A call whose exclusive create failed: it is in the wait loop or on its way out.
Waiter(c) == ~fd[c] /\ pc[c] \in {"wait", "finally"}

\* C15: a call whose exclusive create failed moves no file, creates no directory under
\* the current root and writes no done marker; it leaves the wait loop only through a
\* return, with waited_for_other_process only when the done marker exists at that poll
\* and lock_timeout otherwise, and it never goes back to the exclusive create.
C15_WaiterOutcome ==
  [][\A c \in Calls :
       Waiter(c) =>
         /\ ~fd'[c] /\ moved'[c] = 0 /\ skipped'[c] = 0 /\ errors'[c] = 0
         /\ pc'[c] # pc[c] => UNCHANGED <<fsVars, markerVars>>
         /\ pc[c] = "wait" =>
              /\ pc'[c] \in {"wait", "finally"}
              /\ pc'[c] = "finally" =>
                   /\ result'[c] \in {"waited_for_other_process", "lock_timeout"}
                   /\ result'[c] = "waited_for_other_process" => done_marker
         /\ pc[c] = "finally" =>
              /\ pc'[c] \in {"finally", "done"}
              /\ result'[c] = result[c]]_vars

C15_Witness ==
  /\ pc[1] = "done" /\ result[1] = "migrated" /\ moved[1] = 2
  /\ pc[2] = "done" /\ result[2] = "waited_for_other_process" /\ ~fd[2]

\* A call that created the lock file has returned without writing the done marker:
\* with a move error, or through an exception.
FailedPass(d) == fd[d] /\ pc[d] = "done" /\ (errors[d] > 0 \/ result[d] = "raised")

\* C16 as claimed: a waiter times out only while a lock holder's work is still in
\* progress (taken here only for timeouts with no done marker and a usable current
\* root).
C16_Original ==
  [][\A c \in Calls :
       (pc[c] = "wait" /\ result'[c] = "lock_timeout" /\ ~done_marker
          /\ current_root # "file")
         => \E d \in Calls : InBody(d)]_vars

\* C16 amended: when a waiter times out and no done marker exists, either a lock
\* holder's work is still in progress or a holder has finished without writing the
\* marker (errors > 0, or an exception); a waiter returns waited_for_other_process only
\* when the marker exists, that is when some pass completed with errors == 0.
C16_Timeout ==
  [][\A c \in Calls :
       /\ (pc[c] = "wait" /\ result'[c] = "lock_timeout" /\ ~done_marker)
            => \E d \in Calls : InBody(d) \/ FailedPass(d)
       /\ (pc[c] = "wait" /\ result'[c] = "waited_for_other_process")
            => CleanPasses # {}]_vars

C16_Witness ==
  /\ pc[1] = "done" /\ result[1] = "migrated" /\ errors[1] = 1 /\ ~done_marker
  /\ pc[2] = "done" /\ result[2] = "lock_timeout" /\ ~lock_file

\* The regular files in the legacy subdirectories when call c starts its pass, calls
\* running one after the other.
FilesAt(c) == Cardinality(Files0) - SumTo(moved, c - 1)

\* C17: in an uncontended pass a failed move does not end the pass: the pass returns
\* migrated=true with moved + skipped + errors equal to the number of regular files in
\* the two legacy subdirectories, image/ is finished before video/ is started, and
\* every file whose move fails is still at its source.
C17_ErrorIsolation ==
  /\ \A c \in Calls :
       /\ (pc[c] = "done" /\ result[c] = "migrated")
            => moved[c] + skipped[c] + errors[c] = FilesAt(c)
       /\ (pc[c] \in {"mkdir_dst", "iterdir"} /\ subIdx[c] = 2 /\ SumTo(moved, c - 1) = 0)
            => moved[c] + skipped[c] + errors[c]
                 = Cardinality({sl \in Files0 : sl[1] = "image"})
       /\ (pc[c] \in {"mkdir_dst", "iterdir", "loop", "target", "move"} /\ subIdx[c] = 2)
            => \A sl \in Plain0 : sl[1] = "image" => legacy[sl] = "none"
       /\ (pc[c] \in {"cleanup", "write_done"} /\ current_root # "file")
            => moved[c] + skipped[c] + errors[c] = FilesAt(c)
  /\ \A sl \in Files0 \cap unmovable : legacy[sl] = "file" /\ current[sl] = current0[sl]

C17_Witness ==
  /\ pc[1] = "done" /\ result[1] = "migrated"
  /\ errors[1] = 1 /\ moved[1] = 1 /\ ~done_marker
  /\ <<"image", "a">> \in unmovable /\ legacy[<<"image", "a">>] = "file"
  /\ legacy0[<<"video", "a">>] = "file" /\ current[<<"video", "a">>] = "legacy"

\* C18: the early exit on an existing done marker: the call returns already_done, and
\* in doing so it does not create or delete the lock file and changes no file or
\* directory, the marker included.
C18_EarlyExitNoop ==
  [][\A c \in Calls :
       /\ (pc[c] = "check_done" /\ pc'[c] # "check_done" /\ done_marker)
            => /\ pc'[c] = "done" /\ result'[c] = "already_done"
               /\ ~fd'[c]
               /\ UNCHANGED <<fsVars, lockVars, markerVars>>
       /\ result[c] = "already_done"
            => /\ pc[c] = "done" /\ pc'[c] = "done"
               /\ ~fd'[c] /\ moved'[c] = 0 /\ skipped'[c] = 0 /\ errors'[c] = 0]_vars

C18_Witness ==
  /\ pc[2] = "done" /\ result[2] = "already_done"
  /\ lock_file /\ lockCreator = 1 /\ pc[1] = "finally" /\ moved[1] = 2

\* C19: under fair scheduling, with the wait deadline eventually expiring, every call
\* that has started eventually returns: from some point on no call is inside the
\* function (a call that has returned stays returned), so no call waits forever for the
\* lock or for the marker, and calls do not block each other.
C19_Termination == <>[]Quiet

C19_Witness ==
  /\ pc[1] = "done" /\ result[1] = "lock_timeout"
  /\ pc[2] = "done" /\ result[2] = "migrated" /\ moved[2] = 1

\* C20: no cached file is lost or overwritten: a regular file that was in a legacy
\* subdirectory is still there or is in the corresponding current subdirectory under
\* the same name (with its own content, unless a file of that name was there before),
\* and a file that was in a current subdirectory is there with its original content.
C20_NoFileLost ==
  \A sl \in Slots :
    /\ legacy0[sl] = "file" => (legacy[sl] = "file" \/ current[sl] # "none")
    /\ (legacy0[sl] = "file" /\ current0[sl] = "none")
         => (legacy[sl] = "file") # (current[sl] = "legacy")
    /\ current0[sl] # "none" => current[sl] = current0[sl]

C20_Witness ==
  /\ pc[1] = "done" /\ pc[2] = "done"
  /\ moved[1] + moved[2] = 1 /\ skipped[1] + skipped[2] >= 1
  /\ \E sl \in Collide0 : legacy[sl] = "file" /\ current[sl] = "orig"
  /\ \E sl \in Plain0 : legacy[sl] = "none" /\ current[sl] = "legacy"

====
